---- MODULE Spec2Model ----
(***************************************************************************)
(* A model of src/utils/.ipynb_checkpoints/data_tools-checkpoint.py: the   *)
(* workbook loader read_all_excel_sheets and the sheet profiler            *)
(* df_overview.                                                            *)
(*                                                                         *)
(* A workbook on disk is a function from sheet names to sheets; a sheet is *)
(* a sequence of columns and a column a sequence of raw cells.  A raw cell *)
(* is [t, v]: t is the cell type stored in the file ("blank", "text",      *)
(* "number") and v its text.  A cell read by pandas is [t, v] with t the   *)
(* Python type of the value ("str", "int", "float") and v its text; the    *)
(* missing-value marker NaN is a float.                                    *)
(*                                                                         *)
(* Percentages are kept in tenths of a percent (1000 is 100.0).            *)
(* metadata's "Memory Usage" entry is a byte count of the interpreter and  *)
(* is not modelled.                                                        *)
(***************************************************************************)
EXTENDS Integers, Sequences, FiniteSets, TLC

VARIABLES
    workbook,       \* the file at file_path: sheet name -> sheet (columns of raw cells)
    sheet_name,     \* df_overview's argument
    pc,             \* position of the running call
    df,             \* df_overview: <<>> before line 36, <<columns>> after
    metadata,       \* df_overview: <<>> or <<record>> (lines 39-45)
    dq,             \* df_overview: <<>> or <<rows>> (lines 48-53)
    sample_values,  \* df_overview: one sample per column visited so far (line 56)
    out,            \* what the call has emitted: stdout prints and the chart shown
    raised,         \* the exception in flight or caught, "none" if none
    escaped,        \* the exception that reached the caller, "none" if none
    returned,       \* "no", "None" or "value": how the call returned
    opens,          \* read_all_excel_sheets: times the file was opened
    output,         \* read_excel's partial mapping while it parses the sheets
    sheets_dict,    \* read_all_excel_sheets: <<>> or <<mapping>> (line 16)
    missing_fig     \* df_overview: <<>> or <<figure>> (lines 78-87)

vars == <<workbook, sheet_name, pc, df, metadata, dq, sample_values, out,
          raised, escaped, returned, opens, output, sheets_dict, missing_fig>>

profilerLocals == <<df, metadata, dq, sample_values, missing_fig>>
loaderVars == <<opens, output, sheets_dict>>

\* ------------------------------------------------------------------ bounds
MaxRows == 4            \* rows of a profiled sheet
LoaderMaxRows == 2      \* rows of a sheet of a loaded workbook

ColumnNames == <<"A", "B">>     \* header cells, left to right
LoaderColumnNames == <<"A">>
ProfiledSheets == {"Q1"}        \* sheets of a profiled workbook
RequestedSheets == {"Q1", "Q2"} \* sheet_name arguments
SheetNames == {"Summary", "Detail"}

\* ------------------------------------------------------------------ cells
Blank == [t |-> "blank", v |-> ""]
EmptyStr == [t |-> "text", v |-> ""]
NAStr == [t |-> "text", v |-> "NA"]
NullStr == [t |-> "text", v |-> "null"]
Txt == [t |-> "text", v |-> "abc"]
Num == [t |-> "number", v |-> "42"]

ProfilerCells == <<Blank, Txt, Num>>
LoaderCells == <<Blank, EmptyStr, NAStr, NullStr, Txt, Num>>

NaN == [t |-> "float", v |-> "nan"]

\* line 21: na_values=['', 'NA']
na_values == {"", "NA"}

\* The texts pandas reads as missing by itself (keep_default_na is left on at
\* lines 16-22 and at line 36); na_values come on top of them.
STR_NA_VALUES == {"", "#N/A", "N/A", "NA", "NULL", "NaN", "n/a", "nan", "null"}

Min(a, b) == IF a < b THEN a ELSE b

\* ------------------------------------------------------------------ sheets
RECURSIVE Pow(_, _)
Pow(b, e) == IF e = 0 THEN 1 ELSE b * Pow(b, e - 1)

Rank(alphabet, c) == CHOOSE i \in 1..Len(alphabet) : alphabet[i] = c

RECURSIVE RowKey(_, _, _)
RowKey(alphabet, row, j) ==
    IF j > Len(row) THEN 0
    ELSE (Rank(alphabet, row[j]) - 1) * Pow(Len(alphabet), j - 1)
         + RowKey(alphabet, row, j + 1)

\* The sheets of R rows and C columns with their rows in one fixed order:
\* nothing the two functions compute depends on the order of the rows.
RowLists(alphabet, R, C) ==
    LET cells == {alphabet[i] : i \in 1..Len(alphabet)}
    IN  {rows \in [1..R -> [1..C -> cells]] :
            \A i \in 1..(R - 1) :
                RowKey(alphabet, rows[i], 1) <= RowKey(alphabet, rows[i + 1], 1)}

Columns(rows, C) == [j \in 1..C |-> [i \in 1..Len(rows) |-> rows[i][j]]]

\* A sheet without columns has no rows.
Sheets(alphabet, maxRows, maxCols) ==
    {<<>>} \cup
    UNION {UNION {{Columns(rows, C) : rows \in RowLists(alphabet, R, C)}
                    : R \in 0..maxRows} : C \in 1..maxCols}

Range(s) == {s[i] : i \in 1..Len(s)}

\* --------------------------------------------------- reading (pandas.read_excel)
\* A cell the loader takes for missing: a blank cell, or text that is one of
\* na_values or of the reader's own markers.
IsMissingRaw(c) ==
    c.t = "blank" \/ (c.t = "text" /\ c.v \in na_values \cup STR_NA_VALUES)

\* The same at line 36, where no na_values are given.
IsMissingInferred(c) == c.t = "blank" \/ (c.t = "text" /\ c.v \in STR_NA_VALUES)

\* line 36: no dtype given, the type of a column is inferred from its cells.
\* A column without rows or holding text is 'object'; numbers with a missing
\* cell are float64; numbers alone are int64.
InferDtype(col) ==
    IF Len(col) = 0 THEN "object"
    ELSE IF \E i \in 1..Len(col) : ~IsMissingInferred(col[i]) /\ col[i].t = "text"
         THEN "object"
    ELSE IF \E i \in 1..Len(col) : IsMissingInferred(col[i]) THEN "float64"
    ELSE "int64"

InferCell(c, dtype) ==
    IF IsMissingInferred(c) THEN NaN
    ELSE IF c.t = "text" THEN [t |-> "str", v |-> c.v]
    ELSE IF dtype = "float64" THEN [t |-> "float", v |-> c.v]
    ELSE [t |-> "int", v |-> c.v]

\* A parsed column: its name, its dtype and its values.
InferColumn(name, col) ==
    LET dtype == InferDtype(col)
    IN  [name |-> name, dtype |-> dtype,
         values |-> [i \in 1..Len(col) |-> InferCell(col[i], dtype)]]

\* line 36: pd.read_excel(file_path, sheet_name=sheet_name, engine='openpyxl')
InferSheet(sheet) ==
    [j \in 1..Len(sheet) |-> InferColumn(ColumnNames[j], sheet[j])]

\* The cell as read without dtype=str.
StrCell_Inferred(c) ==
    IF IsMissingRaw(c) THEN NaN
    ELSE IF c.t = "text" THEN [t |-> "str", v |-> c.v]
    ELSE [t |-> "int", v |-> c.v]

\* lines 16-22: dtype=str keeps every cell that is not missing as its text.
StrCell(c) == IF IsMissingRaw(c) THEN NaN ELSE [t |-> "str", v |-> c.v]

StrSheet(sheet) ==
    [j \in 1..Len(sheet) |->
        [name |-> LoaderColumnNames[j], dtype |-> "object",
         values |-> [i \in 1..Len(sheet[j]) |-> StrCell(sheet[j][i])]]]

\* --------------------------------------------------- statistics (lines 39-64)
FrameRows(frame) == IF Len(frame) = 0 THEN 0 ELSE Len(frame[1].values)

isnull(x) == x = NaN

dropna(values) == SelectSeq(values, LAMBDA x : ~isnull(x))

\* Series.isnull().sum()
MissingCount(values) == Cardinality({i \in 1..Len(values) : isnull(values[i])})

\* Series.nunique(): distinct values, missing ones left out
nunique(values) == Cardinality({x \in Range(values) : ~isnull(x)})

\* df.duplicated().sum(): rows equal to an earlier row
DuplicateRows(frame) ==
    LET R == FrameRows(frame)
        row(i) == [j \in 1..Len(frame) |-> frame[j].values[i]]
    IN  R - Cardinality({row(i) : i \in 1..R})

\* The percentage cut to one decimal instead of rounded.
PercentMissing_Truncated(m, R) == IF R = 0 THEN -1 ELSE (1000 * m) \div R

\* round(x, 1) of 100 * m / R in tenths, ties to the even tenth as numpy rounds;
\* the mean of no rows is nan, written -1 here.
PercentMissing(m, R) ==
    IF R = 0 THEN -1
    ELSE LET q == (1000 * m) \div R
             r == (1000 * m) % R
         IN  IF 2 * r < R THEN q
             ELSE IF 2 * r > R THEN q + 1
             ELSE IF q % 2 = 0 THEN q ELSE q + 1

\* lines 39-45
Metadata(name, frame) ==
    [SheetName |-> name,
     Rows |-> FrameRows(frame),
     Columns |-> Len(frame),
     DuplicateRows |-> DuplicateRows(frame)]

\* lines 48-53: one row per column of df, labelled by the column
DataQuality(frame) ==
    [j \in 1..Len(frame) |->
        [index |-> frame[j].name,
         DataType |-> frame[j].dtype,
         MissingValues |-> MissingCount(frame[j].values),
         PctMissing |-> PercentMissing(MissingCount(frame[j].values),
                                       Len(frame[j].values)),
         UniqueValues |-> nunique(frame[j].values)]]

\* Series.sample(n): n values drawn without replacement, listed here in row
\* order; no draw exists when n exceeds the population.
Draws(values, n) ==
    {[i \in 1..n |-> values[pick[i]]] :
        pick \in {p \in [1..n -> 1..Len(values)] :
                    \A i \in 1..(n - 1) : p[i] < p[i + 1]}}

\* lines 58-64: the population and the size of the draw of one column
SamplePopulation(column) ==
    IF column.dtype = "object" THEN dropna(column.values) ELSE column.values

SampleSize(column) == Min(3, Len(column.values))

\* line 64: a column that is not 'object' and has no rows is not sampled
SkipsSample(column) == column.dtype # "object" /\ Len(column.values) = 0

\* line 75: pd.DataFrame(sample_values) needs arrays of one length
SameLength(samples) ==
    \A i, j \in 1..Len(samples) : Len(samples[i]) = Len(samples[j])

\* ------------------------------------------------------------ df_overview
\* The statements of the try block (lines 36-88) that call into pandas,
\* tabulate or plotly, by the position that runs them.
LibraryCalls ==
    {"read", "metadata", "dq", "sample", "print_metadata", "print_dq",
     "print_sample", "chart", "layout", "show"}

\* What a library call can raise for a reason outside the sheet's cells.
LibraryErrors(at) == IF at = "read" THEN {"OSError"} ELSE {"RuntimeError"}

\* A try block opened after the sheet is read.
InTry_AfterRead(at) == at \in LibraryCalls \ {"read"}

\* line 90: the except clause covers every statement of lines 36-88
InTry(at) == at \in LibraryCalls

\* An exception swallowed where it is raised, a value returned in its place.
Raise_Swallowed(at, e) ==
    /\ pc' = "done"
    /\ raised' = e
    /\ returned' = "value"
    /\ UNCHANGED escaped

\* An exception raised at position `at`: caught by line 90 when the position is
\* inside the try block, passed to the caller otherwise.
Raise(at, e) ==
    IF InTry(at)
    THEN /\ pc' = "except"
         /\ raised' = e
         /\ UNCHANGED <<escaped, returned>>
    ELSE /\ pc' = "done"
         /\ raised' = e
         /\ escaped' = e
         /\ UNCHANGED returned

\* line 36
ReadSheet ==
    /\ pc = "read"
    /\ IF sheet_name \in DOMAIN workbook
       THEN /\ df' = <<InferSheet(workbook[sheet_name])>>
            /\ pc' = "metadata"
            /\ UNCHANGED <<raised, escaped, returned>>
       ELSE /\ Raise("read", "ValueError: Worksheet not found")
            /\ UNCHANGED df
    /\ UNCHANGED <<workbook, sheet_name, metadata, dq, sample_values, out,
                   missing_fig, loaderVars>>

\* The metadata block printed as soon as it is computed.
ComputeMetadata_PrintedAtOnce ==
    /\ pc = "metadata"
    /\ metadata' = <<Metadata(sheet_name, df[1])>>
    /\ out' = Append(out, [kind |-> "metadata", body |-> Metadata(sheet_name, df[1])])
    /\ pc' = "dq"
    /\ UNCHANGED <<workbook, sheet_name, df, dq, sample_values, raised,
                   escaped, returned, missing_fig, loaderVars>>

\* lines 39-45
ComputeMetadata ==
    /\ pc = "metadata"
    /\ metadata' = <<Metadata(sheet_name, df[1])>>
    /\ pc' = "dq"
    /\ UNCHANGED <<workbook, sheet_name, df, dq, sample_values, out, raised,
                   escaped, returned, missing_fig, loaderVars>>

\* lines 48-53 and 56; the loop of line 57 is entered when df has a column
ComputeDataQuality ==
    /\ pc = "dq"
    /\ dq' = <<DataQuality(df[1])>>
    /\ sample_values' = <<>>
    /\ pc' = IF Len(df[1]) = 0 THEN "print_banner" ELSE "sample"
    /\ UNCHANGED <<workbook, sheet_name, df, metadata, out, raised, escaped,
                   returned, missing_fig, loaderVars>>

\* lines 57-64, one column: the next column of df is sampled
SampleColumn ==
    /\ pc = "sample"
    /\ LET col == df[1][Len(sample_values) + 1]
           last == Len(sample_values) + 1 = Len(df[1])
           next == IF last THEN "print_banner" ELSE "sample"
       IN  IF SkipsSample(col)
           THEN /\ sample_values' = Append(sample_values, <<>>)
                /\ pc' = next
                /\ UNCHANGED <<raised, escaped, returned>>
           ELSE IF SampleSize(col) > Len(SamplePopulation(col))
           THEN /\ Raise("sample", "ValueError: larger sample than population")
                /\ UNCHANGED sample_values
           ELSE /\ \E drawn \in Draws(SamplePopulation(col), SampleSize(col)) :
                       sample_values' = Append(sample_values, drawn)
                /\ pc' = next
                /\ UNCHANGED <<raised, escaped, returned>>
    /\ UNCHANGED <<workbook, sheet_name, df, metadata, dq, out, missing_fig,
                   loaderVars>>

Emit(kind, body) == out' = Append(out, [kind |-> kind, body |-> body])

Printing(at, to) ==
    /\ pc = at
    /\ pc' = to
    /\ UNCHANGED <<workbook, sheet_name, profilerLocals, raised, escaped,
                   returned, loaderVars>>

\* line 67
PrintBanner == Printing("print_banner", "print_metadata") /\ Emit("banner", "DATA OVERVIEW")

\* lines 68-69
PrintMetadata == Printing("print_metadata", "print_dq_banner") /\ Emit("metadata", metadata[1])

\* line 71
PrintDataQualityBanner == Printing("print_dq_banner", "print_dq") /\ Emit("banner", "DATA QUALITY ASSESSMENT")

\* line 72
PrintDataQuality == Printing("print_dq", "print_sample_banner") /\ Emit("data_quality", dq[1])

\* line 74
PrintSampleBanner == Printing("print_sample_banner", "print_sample") /\ Emit("banner", "VALUE SAMPLE")

\* line 75
PrintSample ==
    /\ pc = "print_sample"
    /\ IF SameLength(sample_values)
       THEN /\ Emit("sample", sample_values)
            /\ pc' = "chart"
            /\ UNCHANGED <<raised, escaped, returned>>
       ELSE /\ Raise("print_sample", "ValueError: arrays must be of the same length")
            /\ UNCHANGED out
    /\ UNCHANGED <<workbook, sheet_name, profilerLocals, loaderVars>>

\* lines 78-86: one bar per row of dq, its height the row's % Missing
BuildChart ==
    /\ pc = "chart"
    /\ missing_fig' = <<[bars |-> [j \in 1..Len(dq[1]) |->
                                     [x |-> dq[1][j].index, y |-> dq[1][j].PctMissing]],
                         tickangle |-> 0]>>
    /\ pc' = "layout"
    /\ UNCHANGED <<workbook, sheet_name, df, metadata, dq, sample_values, out,
                   raised, escaped, returned, loaderVars>>

\* line 87
UpdateLayout ==
    /\ pc = "layout"
    /\ missing_fig' = <<[missing_fig[1] EXCEPT !.tickangle = -45]>>
    /\ pc' = "show"
    /\ UNCHANGED <<workbook, sheet_name, df, metadata, dq, sample_values, out,
                   raised, escaped, returned, loaderVars>>

\* The handler's print run after the chart as well, as a finally clause would.
ShowChart_ThenHandler ==
    /\ pc = "show"
    /\ out' = Append(out, [kind |-> "chart", body |-> missing_fig[1]])
    /\ pc' = "except"
    /\ UNCHANGED <<workbook, sheet_name, profilerLocals, raised, escaped,
                   returned, loaderVars>>

\* line 88, then the end of the function: it returns None
ShowChart ==
    /\ pc = "show"
    /\ Emit("chart", missing_fig[1])
    /\ pc' = "done"
    /\ returned' = "None"
    /\ UNCHANGED <<workbook, sheet_name, profilerLocals, raised, escaped,
                   loaderVars>>

\* The library call of the current line raises.
LibraryFault ==
    /\ pc \in LibraryCalls
    /\ \E e \in LibraryErrors(pc) : Raise(pc, e)
    /\ UNCHANGED <<workbook, sheet_name, profilerLocals, out, loaderVars>>

\* lines 90-91, then the end of the function: it returns None
ExceptHandler ==
    /\ pc = "except"
    /\ Emit("diagnostic", [sheet |-> sheet_name, error |-> raised])
    /\ pc' = "done"
    /\ returned' = "None"
    /\ UNCHANGED <<workbook, sheet_name, profilerLocals, raised, escaped,
                   loaderVars>>

\* A call df_overview(file_path, sheet_name) on a workbook of one sheet.
Init ==
    /\ workbook \in [ProfiledSheets -> Sheets(ProfilerCells, MaxRows, Len(ColumnNames))]
    /\ sheet_name \in RequestedSheets
    /\ pc = "read"
    /\ df = <<>> /\ metadata = <<>> /\ dq = <<>> /\ sample_values = <<>>
    /\ missing_fig = <<>>
    /\ out = <<>>
    /\ raised = "none" /\ escaped = "none" /\ returned = "no"
    /\ opens = 0 /\ output = <<>> /\ sheets_dict = <<>>

Next ==
    \/ ReadSheet
    \/ ComputeMetadata
    \/ ComputeDataQuality
    \/ SampleColumn
    \/ PrintBanner
    \/ PrintMetadata
    \/ PrintDataQualityBanner
    \/ PrintDataQuality
    \/ PrintSampleBanner
    \/ PrintSample
    \/ BuildChart
    \/ UpdateLayout
    \/ ShowChart
    \/ LibraryFault
    \/ ExceptHandler

Spec == Init /\ [][Next]_vars

\* ------------------------------------------------- read_all_excel_sheets
\* What opening the file can raise: no such path, no permission, not a workbook.
OpenErrors == {"FileNotFoundError", "PermissionError", "BadZipFile"}

\* lines 16-22, pd.read_excel opening file_path
OpenWorkbook ==
    /\ pc = "open"
    /\ opens' = opens + 1
    /\ \/ /\ pc' = "parse"
          /\ UNCHANGED <<raised, escaped, returned>>
       \/ \E e \in OpenErrors : Raise("open", e)
    /\ UNCHANGED <<workbook, sheet_name, profilerLocals, out, output, sheets_dict>>

\* The read without sheet_name=None: one sheet is parsed and returned.
ParseSheet_FirstOnly ==
    /\ pc = "parse"
    /\ \E name \in DOMAIN workbook \ DOMAIN output :
          /\ output' = (name :> StrSheet(workbook[name])) @@ output
          /\ pc' = "return"
    /\ UNCHANGED <<workbook, sheet_name, profilerLocals, out, raised, escaped,
                   returned, opens, sheets_dict>>

\* lines 16-22, sheet_name=None: every sheet of the file is parsed into the
\* mapping under its own name
ParseSheet ==
    /\ pc = "parse"
    /\ \E name \in DOMAIN workbook \ DOMAIN output :
          /\ output' = (name :> StrSheet(workbook[name])) @@ output
          /\ pc' = IF DOMAIN output' = DOMAIN workbook THEN "return" ELSE "parse"
    /\ UNCHANGED <<workbook, sheet_name, profilerLocals, out, raised, escaped,
                   returned, opens, sheets_dict>>

\* lines 16-22: a sheet that does not parse
ParseFault ==
    /\ pc = "parse"
    /\ Raise("parse", "ParseError")
    /\ UNCHANGED <<workbook, sheet_name, profilerLocals, out, loaderVars>>

\* line 16, the assignment, and line 23
ReturnSheets ==
    /\ pc = "return"
    /\ sheets_dict' = <<output>>
    /\ returned' = "value"
    /\ pc' = "done"
    /\ UNCHANGED <<workbook, sheet_name, profilerLocals, out, raised, escaped,
                   opens, output>>

\* The workbooks with at least one sheet.
Workbooks(names, sheets) ==
    UNION {[D -> sheets] : D \in SUBSET names \ {{}}}

\* A call read_all_excel_sheets(file_path).
InitLoader ==
    /\ workbook \in Workbooks(SheetNames,
                              Sheets(LoaderCells, LoaderMaxRows, Len(LoaderColumnNames)))
    /\ sheet_name = ""
    /\ pc = "open"
    /\ df = <<>> /\ metadata = <<>> /\ dq = <<>> /\ sample_values = <<>>
    /\ missing_fig = <<>>
    /\ out = <<>>
    /\ raised = "none" /\ escaped = "none" /\ returned = "no"
    /\ opens = 0 /\ output = <<>> /\ sheets_dict = <<>>

NextLoader ==
    \/ OpenWorkbook
    \/ ParseSheet
    \/ ParseFault
    \/ ReturnSheets

SpecLoader == InitLoader /\ [][NextLoader]_vars

\* ================================================================ properties
Kinds == [i \in 1..Len(out) |-> out[i].kind]

\* The report blocks and diagnostics emitted, banners left out.
Blocks == SelectSeq(Kinds, LAMBDA k : k # "banner")

Report == <<"metadata", "data_quality", "sample", "chart">>

IsPrefix(s, t) == Len(s) <= Len(t) /\ \A i \in 1..Len(s) : s[i] = t[i]

Diagnostics == {i \in 1..Len(out) : out[i].kind = "diagnostic"}

Printed(kind) == {i \in 1..Len(out) : out[i].kind = kind}

SampleError == "ValueError: larger sample than population"

\* The requested sheet as it is in the file.
Requested == workbook[sheet_name]
Present == sheet_name \in DOMAIN workbook
SheetRows == IF ~Present \/ Len(Requested) = 0 THEN 0 ELSE Len(Requested[1])

\* Non-missing cells of column j of df.
NonMissing(j) ==
    Cardinality({i \in 1..Len(df[1][j].values) : df[1][j].values[i] # NaN})

\* C1: df_overview fails soft: whatever step of lines 36-88 raises, no
\* exception reaches the caller, and once the call is over it has returned
\* None and printed exactly one diagnostic, which names the requested sheet.
C1_FailsSoft ==
    /\ escaped = "none"
    /\ (pc = "done" /\ raised # "none") =>
          /\ returned = "None"
          /\ Cardinality(Diagnostics) = 1
          /\ \A i \in Diagnostics :
                out[i].body.sheet = sheet_name /\ out[i].body.error = raised

C1_Witness ==
    /\ pc = "done"
    /\ ~Present
    /\ raised = "ValueError: Worksheet not found"
    /\ Len(out) = 1 /\ out[1].kind = "diagnostic"

\* What a library call raises for a reason outside the sheet's cells.
EnvironmentErrors == UNION {LibraryErrors(at) : at \in LibraryCalls}

\* C2 as stated: a call on a sheet of the workbook that no outside failure
\* stops prints a sample-values block in which every column holds exactly
\* min(3, n) values, n the column's non-missing cells, whatever its type.
C2_SampleIsMin3OfNonMissing ==
    (pc = "done" /\ Present /\ raised \notin EnvironmentErrors) =>
        \E b \in Printed("sample") :
            /\ Len(out[b].body) = Len(Requested)
            /\ \A j \in 1..Len(out[b].body) :
                  Len(out[b].body[j]) = Min(3, NonMissing(j))

\* C3 as stated: in a printed sample-values block every column's sample has at
\* most 3 values, at most as many as the column has non-missing cells, and no
\* missing value.
C3_PrintedSamplesNonMissing ==
    \A b \in Printed("sample") :
        \A j \in 1..Len(out[b].body) :
            /\ Len(out[b].body[j]) <= 3
            /\ Len(out[b].body[j]) <= NonMissing(j)
            /\ \A i \in 1..Len(out[b].body[j]) : out[b].body[j][i] # NaN

\* Column j of the requested sheet has rows and every cell of it is blank.
EntirelyEmpty(j) ==
    /\ Present
    /\ j \in 1..Len(Requested)
    /\ Len(Requested[j]) > 0
    /\ \A i \in 1..Len(Requested[j]) : Requested[j][i] = Blank

\* C4 as stated: for a sheet of R > 0 rows with an entirely empty column, the
\* metadata block shows Rows = R, the data-quality block shows the column with
\* Missing Values = R, % Missing = 100.0 and Unique Values = 0, and the
\* sample-values block shows no value for the column.
C4_EmptyColumnReport ==
    \A j \in 1..Len(ColumnNames) :
        EntirelyEmpty(j) =>
            /\ \A b \in Printed("metadata") : out[b].body.Rows = SheetRows
            /\ \A b \in Printed("data_quality") :
                  /\ out[b].body[j].MissingValues = SheetRows
                  /\ out[b].body[j].PctMissing = 1000
                  /\ out[b].body[j].UniqueValues = 0
            /\ \A b \in Printed("sample") : Len(out[b].body[j]) = 0

Abs(x) == IF x < 0 THEN -x ELSE x

\* C5: a printed data-quality block of a sheet with at least one row has one
\* row per column of the sheet, in the sheet's column order; in each row the
\* missing count and the column's non-missing cells add up to the row count,
\* % Missing is the tenth nearest to 100 * missing / rows, and 0 <= % <= 100.
C5_DataQualityBlock ==
    \A b \in Printed("data_quality") :
        SheetRows >= 1 =>
            /\ Len(out[b].body) = Len(Requested)
            /\ \A j \in 1..Len(out[b].body) :
                  LET row == out[b].body[j]
                  IN  /\ row.index = ColumnNames[j]
                      /\ row.MissingValues + NonMissing(j) = SheetRows
                      /\ 2 * Abs(row.PctMissing * SheetRows - 1000 * row.MissingValues)
                            <= SheetRows
                      /\ row.PctMissing >= 0 /\ row.PctMissing <= 1000

C5_Witness ==
    /\ SheetRows = 3
    /\ \E b \in Printed("data_quality") :
          \E j \in 1..Len(out[b].body) :
              out[b].body[j].MissingValues = 2 /\ out[b].body[j].PctMissing = 667

\* C9 as stated: the metadata block is printed before the data-quality
\* statistics are computed, and the data-quality block before a sample is
\* drawn or the draw fails.
C9_PrintedAsComputed ==
    /\ dq # <<>> => Printed("metadata") # {}
    /\ (sample_values # <<>> \/ raised = SampleError) => Printed("data_quality") # {}

\* C9 amended: the blocks come out in the order metadata, data-quality,
\* sample-values, chart, but nothing is printed before the three computations
\* are over: when anything but the diagnostic is in the output, metadata and
\* dq are computed and every column is sampled; a draw that fails leaves the
\* diagnostic as the call's only output.
C9_PrintedAfterComputing ==
    /\ IsPrefix(SelectSeq(Blocks, LAMBDA k : k # "diagnostic"), Report)
    /\ (\E i \in 1..Len(out) : out[i].kind # "diagnostic") =>
          /\ metadata # <<>>
          /\ dq # <<>>
          /\ Len(sample_values) = Len(df[1])
    /\ raised = SampleError => \A i \in 1..Len(out) : out[i].kind = "diagnostic"

C9_Witness ==
    /\ pc = "done"
    /\ raised = SampleError
    /\ metadata # <<>> /\ dq # <<>>
    /\ Len(out) = 1 /\ out[1].kind = "diagnostic"

\* What a finished or running call may have emitted: a prefix of the report,
\* then one diagnostic at most, and none after the whole report.
WellFormedOutput ==
    \E n \in 0..Len(Report) :
        \/ Blocks = SubSeq(Report, 1, n)
        \/ n < Len(Report) /\ Blocks = Append(SubSeq(Report, 1, n), "diagnostic")

\* C10: a call emits a prefix of metadata, data-quality, sample-values, chart
\* and then nothing more when it emitted all four, exactly one diagnostic when
\* it did not; what is emitted stays emitted.
C10_PrefixThenOneDiagnostic ==
    /\ [](/\ WellFormedOutput
          /\ pc = "done" => (Blocks = Report \/ Cardinality(Diagnostics) = 1))
    /\ [][IsPrefix(out, out')]_vars

C10_Witness ==
    /\ pc = "done"
    /\ Blocks = <<"metadata", "data_quality", "sample", "diagnostic">>

\* The cells of the tables the loader returned.
ReturnedCells ==
    {<<name, j, i>> \in (DOMAIN workbook) \X (1..Len(LoaderColumnNames)) \X (1..LoaderMaxRows) :
        /\ j <= Len(workbook[name])
        /\ i <= Len(workbook[name][j])}

Loaded(name, j, i) == sheets_dict[1][name][j].values[i]

\* C6 as stated: every value of every returned table is a string, the cells
\* read as missing included.
C6_AllValuesStrings ==
    returned = "value" =>
        \A c \in ReturnedCells : Loaded(c[1], c[2], c[3]).t = "str"

\* C6 amended: every value of every returned table is a string whatever the
\* type of its cell, except the cells read as missing (blank cells, the texts
\* '' and 'NA', the reader's own markers such as 'null'): these are returned
\* as the missing-value marker, which is no string.
C6_StringsOrMissing ==
    returned = "value" =>
        \A c \in ReturnedCells :
            LET raw == workbook[c[1]][c[2]][c[3]]
                val == Loaded(c[1], c[2], c[3])
            IN  IF raw \in {Blank, EmptyStr, NAStr, NullStr}
                THEN val = NaN /\ val.t # "str"
                ELSE val.t = "str"

C6_Witness ==
    /\ returned = "value"
    /\ \E c \in ReturnedCells : workbook[c[1]][c[2]][c[3]] = Num
    /\ \E c \in ReturnedCells : workbook[c[1]][c[2]][c[3]] = NAStr

\* C7: the mapping the loader returns has exactly the workbook's sheet names
\* as its keys, hence as many entries as the workbook has sheets.
C7_KeysAreSheetNames ==
    returned = "value" =>
        /\ DOMAIN sheets_dict[1] = DOMAIN workbook
        /\ Cardinality(DOMAIN sheets_dict[1]) = Cardinality(DOMAIN workbook)

C7_Witness ==
    /\ returned = "value"
    /\ DOMAIN sheets_dict[1] = SheetNames

\* C8: the loader fails fast: the file is opened once at most, and when the
\* read raises, the caller gets that very error and no value, not even the
\* sheets parsed before the failure.
C8_FailsFast ==
    /\ opens <= 1
    /\ raised # "none" =>
          /\ pc = "done"
          /\ escaped = raised
          /\ returned = "no"
          /\ sheets_dict = <<>>

C8_Witness ==
    /\ pc = "done"
    /\ escaped = "ParseError"
    /\ DOMAIN output # {}
    /\ sheets_dict = <<>>

====
